---- MODULE Spec2Model ----
(***************************************************************************)
(* Model of app_store_bot.py: CompetitorMonitor.check_for_updates (the     *)
(* polling cycle), SlackNotifier.send_consolidated_notification (the       *)
(* formatter and the delivery call), load_last_check / save_last_check     *)
(* (the version store) and main (start, crash, restart).                   *)
(*                                                                         *)
(* A cycle is modelled step by step, one action per loop iteration of      *)
(* check_for_updates, because every iteration makes an HTTP request during *)
(* which the App Store catalogue may change.  The part after the loop      *)
(* (notification and save) is one action.                                  *)
(***************************************************************************)
EXTENDS Integers, Sequences, FiniteSets, TLC

\* Longest list of tracked app ids (competitors.json "app_ids").
MaxTracked == 3

Ids == {"A", "B"}
Versions == {"1.0", "1.1"}

\* Python's None: dict.get() of a missing key, get_app_info() without result.
None == "None"

\* The empty dict {} : no id has a stored version.
Empty == [x \in Ids |-> None]

\* All lists of tracked ids, duplicates allowed (load_competitors does not
\* deduplicate).
TrackedLists == UNION {[1..n -> Ids] : n \in 0..MaxTracked}

\* Contents of last_check.json: missing, unparsable (truncated) or a mapping.
NoFile == [state |-> "nofile", data |-> Empty]
Corrupt == [state |-> "corrupt", data |-> Empty]
FileOf(d) == [state |-> "ok", data |-> d]
Stores == [Ids -> Versions \cup {None}]

VARIABLES
    competitors,    \* self.competitors
    last_versions,  \* self.last_versions (in memory)
    disk,           \* last_check.json
    catalog,        \* the App Store: id -> the lookup result now published
    pc,             \* "idle" (between cycles), "loop" (in the for loop), "down"
    i,              \* position of the for loop in competitors (1-based)
    updated_apps,   \* the list built by the cycle
    app_info,       \* result of the latest get_app_info
    posted,         \* messages handed to chat_postMessage in this cycle
    delivery,       \* outcome of this cycle's notification: none/ok/api_error/error
    save_result,    \* outcome of this cycle's save_last_check: none/ok/open_fail/write_fail
    pre_versions,   \* last_versions when the cycle started
    undelivered,    \* ids with a detected change of the published version whose
                    \* delivery failed, not fetched successfully since
    quiet,          \* cycles this process started since a published version
                    \* last changed (capped at 2)
    prev_ok,        \* ids fetched successfully in the previous cycle, if no
                    \* published version has changed since that cycle started
    cur_ok,         \* ids fetched successfully in this cycle since a
                    \* published version last changed
    due,            \* the scheduled job's next_run has passed
    active,         \* invocations of check_for_updates in progress
    release_notes,  \* formatter input: AppInfo.release_notes, a list of characters
                    \* (each character is its code point, ord(c))
    notes_block,    \* formatter output: the release-notes block, <<>> if none
    list_a,         \* formatter input: a list of updated apps
    list_b,         \* formatter input: another list of updated apps
    titles          \* formatter output: the header blocks of list_a and list_b

\* The state of the bot and of its environment.
bot == <<competitors, last_versions, disk, catalog, pc, i, updated_apps,
         app_info, posted, delivery, save_result, pre_versions,
         undelivered, quiet, prev_ok, cur_ok>>

\* The scheduler's state.
sched == <<due, active>>

\* Inputs and outputs of the formatter taken alone.
fmt == <<release_notes, notes_block, list_a, list_b, titles>>

vars == <<bot, sched, fmt>>

----------------------------------------------------------------------------
\* What the iTunes lookup API answers for an id: data['results'][0].
\* A text is a list of characters, a character its code point (ord(c)).
\* The release notes published with a version of an app.
PublishedNotes(x, v) ==
    IF (x = "A") = (v = "1.0") THEN <<>> ELSE <<66, 117, 103, 32, 102, 105, 120, 101, 115>>

ReleaseDates == {"2024-01-01T08:30:15Z", "2024-02-01T09:00:00Z"}

\* The release date published with a version.
DateOf(v) ==
    IF v = "1.0" THEN "2024-01-01T08:30:15Z" ELSE "2024-02-01T09:00:00Z"

Result(x, v, notes) ==
    [trackName |-> x, artistName |-> "dev", version |-> v,
     currentVersionReleaseDate |-> DateOf(v), trackViewUrl |-> x,
     releaseNotes |-> notes]

Results(x) == {Result(x, v, PublishedNotes(x, v)) : v \in Versions}

Catalogs ==
    {c \in [Ids -> UNION {Results(x) : x \in Ids}] : \A x \in Ids : c[x] \in Results(x)}

\* lines 70-72: datetime.fromisoformat(s.replace('Z', '+00:00'))
fromisoformat(s) ==
    CASE s = "2024-01-01T08:30:15Z" ->
            [year |-> 2024, month |-> 1, day |-> 1, hour |-> 8, minute |-> 30,
             second |-> 15]
      [] s = "2024-02-01T09:00:00Z" ->
            [year |-> 2024, month |-> 2, day |-> 1, hour |-> 9, minute |-> 0,
             second |-> 0]

\* line 135: last_updated.strftime('%Y-%m-%d %H:%M UTC')
strftime(d) == <<d.year, d.month, d.day, d.hour, d.minute>>

\* AppInfo, built as in lines 74-82.  The attribute _is_new_release is
\* attached by check_for_updates and is not a dataclass field; a record
\* without the attribute has is_new_release FALSE (hasattr, lines 102, 120).
AppInfo(app_id, result) ==
    [app_id |-> app_id,
     name |-> result.trackName,
     developer |-> result.artistName,
     current_version |-> result.version,
     last_updated |-> fromisoformat(result.currentVersionReleaseDate),
     store_url |-> result.trackViewUrl,
     release_notes |-> result.releaseNotes,
     is_new_release |-> FALSE]

NoAppInfo ==
    [app_id |-> None, name |-> None, developer |-> None,
     current_version |-> None, last_updated |-> None, store_url |-> None,
     release_notes |-> None, is_new_release |-> FALSE]

\* dataclass-generated __eq__: compares the seven fields, not
\* _is_new_release.
AppInfoEq(a, b) ==
    /\ a.app_id = b.app_id
    /\ a.name = b.name
    /\ a.developer = b.developer
    /\ a.current_version = b.current_version
    /\ a.last_updated = b.last_updated
    /\ a.store_url = b.store_url
    /\ a.release_notes = b.release_notes

\* AppStoreMonitor.get_app_info: the record of the published result, or None
\* on any error / resultCount == 0.
FetchOutcomes == {"ok", "fail"}
get_app_info(app_id, outcome) ==
    IF outcome = "ok" THEN AppInfo(app_id, catalog[app_id]) ELSE NoAppInfo

\* load_last_check: the parsed file, {} when it is missing or unreadable.
load_last_check(file) ==
    IF file.state = "ok" THEN file.data ELSE Empty

\* save_last_check: open(..., 'w') truncates, json.dump writes; every
\* exception is caught and logged.
\* "interrupted": the process is stopped between open() and the end of
\* json.dump.
SaveOutcomes == {"ok", "open_fail", "write_fail", "interrupted"}

save_last_check(file, versions, outcome) ==
    CASE outcome = "ok" -> FileOf(versions)
      [] outcome = "open_fail" -> file
      [] outcome = "write_fail" -> Corrupt
      [] outcome = "interrupted" -> Corrupt

----------------------------------------------------------------------------
\* Mutant: only a newer version (or a first sighting) counts as a change.
IsChangedOnlyNewer(last_version, info) ==
    \/ last_version = None
    \/ last_version = "1.0" /\ info.current_version = "1.1"

\* check_for_updates, line 243: the change test.
IsChanged(last_version, info) == last_version # info.current_version

\* Mutant: the flag is inverted.
IsNewReleaseInverted(last_version) == last_version = None

\* check_for_updates, line 245.
IsNewRelease(last_version) == last_version # None

\* Mutant: the record is put in front of the list.
PrependUpdate(apps, info, is_new) ==
    <<[info EXCEPT !.is_new_release = is_new]>> \o apps

\* check_for_updates, lines 248-249.
AppendUpdate(apps, info, is_new) ==
    Append(apps, [info EXCEPT !.is_new_release = is_new])

\* Mutant: the stored version is not updated.
KeepStored(versions, app_id, version) == versions

\* check_for_updates, line 252.
UpdateStored(versions, app_id, version) ==
    [versions EXCEPT ![app_id] = version]

\* Mutant: a failed fetch ends the loop (break instead of continue).
AbortAfterFailure(k) == Len(competitors) + 1

\* check_for_updates, line 238: a failed fetch skips the id (continue).
NextAfterFailure(k) == k + 1

\* Mutant: the notification and the save run in every cycle.
ShouldNotifyAlways(apps) == TRUE

\* check_for_updates, line 258.
ShouldNotify(apps) == apps # <<>>

----------------------------------------------------------------------------
\* send_consolidated_notification, lines 101-158: the blocks of the message.

\* line 152: release_notes[:500] and len(release_notes) > 500.
NotesLimit == 500

\* line 152: '...'
Marker == <<46, 46, 46>>

\* Characters that str.strip() removes (those with str.isspace()).
Whitespace ==
    {9, 10, 11, 12, 13, 28, 29, 30, 31, 32, 133, 160, 5760}
    \cup 8192..8202 \cup {8232, 8233, 8239, 8287, 12288}

\* line 147: release_notes and release_notes.strip()
HasNotes(notes) ==
    notes # <<>> /\ \E k \in 1..Len(notes) : notes[k] \notin Whitespace

\* line 152: release_notes[:500]
Truncated(notes) ==
    SubSeq(notes, 1, IF Len(notes) < NotesLimit THEN Len(notes) ELSE NotesLimit)

\* Mutant: the marker is added from 500 characters on.
NeedsMarkerAtLimit(notes) == Len(notes) >= NotesLimit

\* line 152: '...' if len(release_notes) > 500 else ''
NeedsMarker(notes) == Len(notes) > NotesLimit

\* lines 147-154: the blocks added for the notes; text is what stands
\* between "*What's New:*\n```" and "```".
NotesBlock(notes) ==
    IF HasNotes(notes)
    THEN <<[type |-> "section",
            text |-> Truncated(notes)
                     \o (IF NeedsMarker(notes) THEN Marker ELSE <<>>)]>>
    ELSE <<>>

NewReleases(apps) == {k \in 1..Len(apps) : apps[k].is_new_release}

Emoji(is_new) == IF is_new THEN "new" ELSE "phone"

\* lines 105-116: the header block, its text being the title.
Header(apps) ==
    [type |-> "header", emoji |-> Emoji(NewReleases(apps) # {}),
     count |-> Len(apps)]

\* lines 123-144: the section of an app, with its three fields.
Section(info) ==
    [type |-> "section", emoji |-> Emoji(info.is_new_release),
     name |-> info.name, developer |-> info.developer,
     version |-> info.current_version, updated |-> strftime(info.last_updated),
     store_url |-> info.store_url]

Divider == [type |-> "divider"]

\* line 157: a divider unless this app equals the last one of the list.
NeedsDivider(apps, k) == ~AppInfoEq(apps[k], apps[Len(apps)])

RECURSIVE AppBlocks(_, _)
AppBlocks(apps, k) ==
    IF k > Len(apps) THEN <<>>
    ELSE <<Section(apps[k])>>
         \o NotesBlock(apps[k].release_notes)
         \o (IF NeedsDivider(apps, k) THEN <<Divider>> ELSE <<>>)
         \o AppBlocks(apps, k + 1)

Blocks(apps) == <<Header(apps)>> \o AppBlocks(apps, 1)

\* send_notification, lines 172-174: the message for one app; the argument
\* is_new_release is not used.
send_notification(info, is_new_release) == Blocks(<<info>>)

\* line 98: nothing is sent for an empty list.
HasUpdates(apps) == apps # <<>>

\* chat_postMessage: success, SlackApiError (caught at line 169), or another
\* exception (network failure), which nothing catches.
DeliveryOutcomes == {"ok", "api_error", "error"}

----------------------------------------------------------------------------
\* The last version recorded in apps for id x, or dflt.
RECURSIVE LastVersionIn(_, _, _)
LastVersionIn(apps, x, dflt) ==
    IF apps = <<>> THEN dflt
    ELSE LET r == apps[Len(apps)]
         IN IF r.app_id = x THEN r.current_version
            ELSE LastVersionIn(SubSeq(apps, 1, Len(apps) - 1), x, dflt)

HasRecord(apps, x) == \E k \in 1..Len(apps) : apps[k].app_id = x

\* The bot after construction (CompetitorMonitor.__init__).
BotInit ==
    /\ competitors \in TrackedLists
    /\ disk \in {NoFile} \cup {FileOf(d) : d \in Stores}
    /\ last_versions = load_last_check(disk)
    /\ catalog \in Catalogs
    /\ pc = "idle"
    /\ i = 1
    /\ updated_apps = <<>>
    /\ app_info = NoAppInfo
    /\ posted = <<>>
    /\ delivery = "none"
    /\ save_result = "none"
    /\ pre_versions = last_versions
    /\ undelivered = {}
    /\ quiet = 0
    /\ prev_ok = {}
    /\ cur_ok = {}

\* The scheduler and the stand-alone formatter at rest.
SchedIdle == due = FALSE /\ active = 0
FmtIdle ==
    /\ release_notes = <<>>
    /\ notes_block = <<>>
    /\ list_a = <<>>
    /\ list_b = <<>>
    /\ titles = <<>>

Init == BotInit /\ SchedIdle /\ FmtIdle

\* The main loop is in schedule.run_pending() / time.sleep(), lines 288-290
\* (or about to make the initial check, line 280).
\* Mutant: the trigger starts a cycle whatever the process is doing.
TriggerAlwaysReady == TRUE

MainLoopWaiting == pc = "idle"

\* main lines 280/283-290: the initial check or a scheduled run enters
\* check_for_updates (lines 229-233).
StartCycle ==
    /\ MainLoopWaiting
    /\ pc' = "loop"
    /\ i' = 1
    /\ updated_apps' = <<>>
    /\ app_info' = NoAppInfo
    /\ posted' = <<>>
    /\ delivery' = "none"
    /\ save_result' = "none"
    /\ pre_versions' = last_versions
    /\ quiet' = IF quiet < 2 THEN quiet + 1 ELSE 2
    /\ prev_ok' = IF quiet >= 1 THEN cur_ok ELSE {}
    /\ cur_ok' = {}
    /\ UNCHANGED <<competitors, last_versions, disk, catalog, undelivered>>

\* One iteration of the for loop, lines 235-255.
Examine ==
    /\ pc = "loop"
    /\ i <= Len(competitors)
    /\ \E outcome \in FetchOutcomes :
        LET app_id == competitors[i]
            info == get_app_info(app_id, outcome)
            last_version == last_versions[app_id]
        IN /\ app_info' = info
           /\ IF info = NoAppInfo
              THEN /\ i' = NextAfterFailure(i)
                   /\ UNCHANGED <<updated_apps, last_versions, cur_ok, undelivered>>
              ELSE /\ i' = i + 1
                   /\ cur_ok' = cur_ok \cup {app_id}
                   /\ undelivered' = undelivered \ {app_id}
                   /\ IF IsChanged(last_version, info)
                      THEN /\ updated_apps' =
                                AppendUpdate(updated_apps, info, IsNewRelease(last_version))
                           /\ last_versions' =
                                UpdateStored(last_versions, app_id, info.current_version)
                      ELSE UNCHANGED <<updated_apps, last_versions>>
    /\ UNCHANGED <<competitors, disk, catalog, pc, posted, delivery, save_result,
                   pre_versions, quiet, prev_ok>>

\* Ids whose latest record of this cycle carries the published version.
DetectedCurrent(apps) ==
    {x \in Ids : /\ HasRecord(apps, x)
                 /\ LastVersionIn(apps, x, None) = catalog[x].version
                 /\ pre_versions[x] # catalog[x].version}

\* After the loop, lines 257-263, with send_consolidated_notification
\* (lines 95-170) and save_last_check (lines 221-227).
Finish ==
    /\ pc = "loop"
    /\ i > Len(competitors)
    /\ i' = 1
    /\ app_info' = NoAppInfo
    /\ IF ShouldNotify(updated_apps)
       THEN \E d \in DeliveryOutcomes, s \in SaveOutcomes :
              /\ IF HasUpdates(updated_apps)
                 THEN /\ posted' = Append(posted, Blocks(updated_apps))
                      /\ delivery' = d
                 ELSE /\ d = "ok"
                      /\ UNCHANGED <<posted, delivery>>
              /\ undelivered' =
                    IF d = "ok" THEN undelivered
                    ELSE undelivered \cup DetectedCurrent(updated_apps)
              /\ IF d = "error"
                 THEN \* the exception leaves check_for_updates and main
                      /\ s = "ok"
                      /\ pc' = "down"
                      /\ UNCHANGED <<disk, save_result>>
                 ELSE /\ disk' = save_last_check(disk, last_versions, s)
                      /\ save_result' = s
                      /\ pc' = IF s = "interrupted" THEN "down" ELSE "idle"
       ELSE /\ pc' = "idle"
            /\ UNCHANGED <<posted, delivery, disk, save_result, undelivered>>
    /\ UNCHANGED <<competitors, last_versions, catalog, updated_apps,
                   pre_versions, quiet, prev_ok, cur_ok>>

\* The App Store publishes another version of an app.
CatalogRelease ==
    /\ \E x \in Ids : \E r \in Results(x) :
          /\ catalog[x].version # r.version
          /\ catalog' = [catalog EXCEPT ![x] = r]
          /\ undelivered' = undelivered \ {x}
    /\ quiet' = 0
    /\ prev_ok' = {}
    /\ cur_ok' = {}
    /\ UNCHANGED <<competitors, last_versions, disk, pc, i, updated_apps, app_info,
                   posted, delivery, save_result, pre_versions>>

\* The process is stopped (signal, container stop); its memory is gone.
Kill ==
    /\ pc # "down"
    /\ pc' = "down"
    /\ last_versions' = Empty
    /\ i' = 1
    /\ updated_apps' = <<>>
    /\ app_info' = NoAppInfo
    /\ posted' = <<>>
    /\ delivery' = "none"
    /\ save_result' = "none"
    /\ pre_versions' = Empty
    /\ quiet' = 0
    /\ prev_ok' = {}
    /\ cur_ok' = {}
    /\ UNCHANGED <<competitors, disk, catalog, undelivered>>

\* The process is started again: CompetitorMonitor.__init__, lines 179-190.
Restart ==
    /\ pc = "down"
    /\ pc' = "idle"
    /\ last_versions' = load_last_check(disk)
    /\ i' = 1
    /\ updated_apps' = <<>>
    /\ app_info' = NoAppInfo
    /\ posted' = <<>>
    /\ delivery' = "none"
    /\ save_result' = "none"
    /\ pre_versions' = load_last_check(disk)
    /\ quiet' = 0
    /\ prev_ok' = {}
    /\ cur_ok' = {}
    /\ UNCHANGED <<competitors, disk, catalog, undelivered>>

Next ==
    \/ StartCycle /\ UNCHANGED <<sched, fmt>>
    \/ Examine /\ UNCHANGED <<sched, fmt>>
    \/ Finish /\ UNCHANGED <<sched, fmt>>
    \/ CatalogRelease /\ UNCHANGED <<sched, fmt>>
    \/ Kill /\ UNCHANGED <<sched, fmt>>
    \/ Restart /\ UNCHANGED <<sched, fmt>>

Spec == Init /\ [][Next]_vars

TypeOK ==
    /\ competitors \in TrackedLists
    /\ last_versions \in Stores
    /\ disk.state \in {"nofile", "corrupt", "ok"}
    /\ catalog \in Catalogs
    /\ pc \in {"idle", "loop", "down"}
    /\ i \in 1..(Len(competitors) + 1)
    /\ Len(posted) <= 1

----------------------------------------------------------------------------
\* Steps of the for loop, recognised in a pair of states.
ExamineStep == pc = "loop" /\ pc' = "loop" /\ i' # i
FetchedStep == ExamineStep /\ app_info' # NoAppInfo
FailedStep == ExamineStep /\ app_info' = NoAppInfo
\* The step that ends a cycle.
FinishStep == pc = "loop" /\ i > Len(competitors) /\ pc' # "loop" /\ delivery' # "none"

LastOf(apps) == apps[Len(apps)]

\* C1: if the delivery of a cycle fails, the persisted store and the
\* in-memory mapping the next cycle compares against are what they were when
\* the cycle started.
C1_StoreUnchangedOnDeliveryFailure ==
    [][(FinishStep /\ delivery' \in {"api_error", "error"})
         => /\ disk' = disk
            /\ (pc' = "idle" => last_versions' = pre_versions)]_vars

\* C2: a change detected for an id in a cycle whose delivery failed is
\* detected again by the next successful fetch of that id that returns the
\* same version.
C2_RedetectedAfterFailedDelivery ==
    [][(FetchedStep /\ competitors[i] \in undelivered)
         => /\ Len(updated_apps') = Len(updated_apps) + 1
            /\ LastOf(updated_apps').app_id = competitors[i]]_vars

\* C3: a successful fetch of id X appends a record for X if and only if the
\* fetched version differs from the version stored for X at that moment
\* (None when absent); a rollback is a change, an equal version is not.
C3_ChangeIffVersionDiffers ==
    [][FetchedStep
         => LET x == competitors[i]
                v == app_info'.current_version
            IN /\ app_info'.app_id = x
               /\ v = catalog[x].version
               /\ IF v # last_versions[x]
                  THEN /\ Len(updated_apps') = Len(updated_apps) + 1
                       /\ SubSeq(updated_apps', 1, Len(updated_apps)) = updated_apps
                       /\ LastOf(updated_apps').app_id = x
                       /\ LastOf(updated_apps').current_version = v
                  ELSE updated_apps' = updated_apps]_vars

\* A cycle has recorded the rollback of an id from 1.1 to 1.0.
C3_Witness ==
    /\ pc = "loop"
    /\ Len(updated_apps) = 1
    /\ updated_apps[1].current_version = "1.0"
    /\ pre_versions[updated_apps[1].app_id] = "1.1"

\* C4: the successful fetch of an id without stored version yields one record
\* with _is_new_release False; every record of an id with a stored version has
\* _is_new_release True.
C4_FirstObservationFlag ==
    [][FetchedStep
         => LET x == competitors[i]
            IN IF last_versions[x] = None
               THEN /\ Len(updated_apps') = Len(updated_apps) + 1
                    /\ LastOf(updated_apps').app_id = x
                    /\ LastOf(updated_apps').is_new_release = FALSE
               ELSE updated_apps' # updated_apps
                      => /\ LastOf(updated_apps').app_id = x
                         /\ LastOf(updated_apps').is_new_release = TRUE]_vars

\* One cycle holds a first observation and a new release.
C4_Witness ==
    \E j, k \in 1..Len(updated_apps) :
        /\ updated_apps[j].is_new_release = FALSE
        /\ pre_versions[updated_apps[j].app_id] = None
        /\ updated_apps[k].is_new_release = TRUE
        /\ pre_versions[updated_apps[k].app_id] # None

\* C5 as stated: the second of two consecutive cycles with no catalogue
\* change since the first one started produces no record at all.
C5_SecondCycleNoRecords ==
    quiet = 2 => updated_apps = <<>>

\* C5 as amended: the second of two consecutive cycles of one process, with
\* no catalogue change since the first one started, produces no record for
\* an id that the first cycle fetched successfully.
C5_SecondCycleNoRecordsForFetched ==
    quiet = 2 => \A k \in 1..Len(updated_apps) : updated_apps[k].app_id \notin prev_ok

\* A second quiet cycle is over: it fetched again an id the first cycle had
\* fetched, and reported only another id.
C5_Witness ==
    /\ quiet = 2
    /\ pc = "idle"
    /\ prev_ok \cap cur_ok # {}
    /\ updated_apps # <<>>

\* C6: a cycle hands at most one message to the delivery call, and only with
\* a non-empty list of records; a cycle without records posts nothing and
\* leaves the in-memory and the persisted store as they were.
C6_DeliveryOnlyForChanges ==
    /\ [](/\ Len(posted) <= 1
          /\ (posted # <<>> => updated_apps # <<>>)
          /\ (pc \in {"loop", "idle"} /\ updated_apps = <<>>
                => last_versions = pre_versions))
    /\ [][(pc = "loop" /\ i > Len(competitors) /\ pc' = "idle" /\ updated_apps = <<>>)
            => /\ posted' = <<>>
               /\ disk' = disk
               /\ last_versions' = pre_versions]_vars

\* A cycle in which every fetch failed is over.
C6_Witness ==
    /\ pc = "idle"
    /\ quiet >= 1
    /\ competitors # <<>>
    /\ cur_ok = {}
    /\ updated_apps = <<>>
    /\ posted = <<>>

\* C7: a failed fetch appends no record, leaves the stored versions and the
\* file alone, and the loop goes on with the next tracked id.
C7_FetchFailureContained ==
    [][FailedStep
         => /\ updated_apps' = updated_apps
            /\ last_versions' = last_versions
            /\ disk' = disk
            /\ i' = i + 1]_vars

\* The fetch of the first tracked id failed, and the cycle still reported
\* and saved another id.
C7_Witness ==
    /\ pc = "idle"
    /\ quiet >= 1
    /\ Len(competitors) >= 2
    /\ competitors[1] \notin cur_ok
    /\ last_versions[competitors[1]] = pre_versions[competitors[1]]
    /\ updated_apps # <<>>
    /\ delivery = "ok"
    /\ save_result = "ok"

\* C8: a cycle whose delivery succeeded leaves as persisted store the store
\* of before the cycle overridden, for the ids with a record, by the version
\* of their latest record; every other id keeps its entry or stays absent.
\* (The file is not written before the end of the cycle, so the store of
\* before the cycle is the file when the cycle ends.)
C8_PersistedAfterDelivery ==
    [][(FinishStep /\ delivery' = "ok" /\ pc' = "idle")
         => load_last_check(disk') =
              [x \in Ids |->
                  LastVersionIn(updated_apps, x, load_last_check(disk)[x])]]_vars

RECURSIVE IsSubseq(_, _)
IsSubseq(s, t) ==
    IF s = <<>> THEN TRUE
    ELSE IF t = <<>> THEN FALSE
    ELSE IF Head(s) = Head(t) THEN IsSubseq(Tail(s), Tail(t))
    ELSE IsSubseq(s, Tail(t))

RecordIds(apps) == [k \in 1..Len(apps) |-> apps[k].app_id]

\* The tracked ids the cycle has examined so far.
Examined ==
    IF pc = "loop" THEN SubSeq(competitors, 1, i - 1) ELSE competitors

\* C9: the ids of the records are, in order, a subsequence of the tracked
\* ids examined so far.
C9_RecordsInTrackedOrder ==
    IsSubseq(RecordIds(updated_apps), Examined)

\* Tracked [B, A, B]: a cycle reported B and then A.
C9_Witness ==
    /\ pc = "idle"
    /\ competitors = <<"B", "A", "B">>
    /\ RecordIds(updated_apps) = <<"B", "A">>

\* The blocks a list of records is to give after the header: per record, in
\* list order, its section, its release-notes block if it has notes, and a
\* divider unless the record is the last of the list.
RECURSIVE ExpectedAppBlocks(_, _)
ExpectedAppBlocks(apps, k) ==
    IF k > Len(apps) THEN <<>>
    ELSE <<Section(apps[k])>>
         \o NotesBlock(apps[k].release_notes)
         \o (IF k < Len(apps) THEN <<Divider>> ELSE <<>>)
         \o ExpectedAppBlocks(apps, k + 1)

Dividers(blocks) == {k \in 1..Len(blocks) : blocks[k] = Divider}

\* C10: a posted message is the header, then one app block per record in
\* list order, with one divider between consecutive app blocks and none at
\* the end: n - 1 dividers for n records.
C10_OneBlockPerRecord ==
    \A m \in 1..Len(posted) :
        /\ posted[m] = <<Header(updated_apps)>> \o ExpectedAppBlocks(updated_apps, 1)
        /\ Cardinality(Dividers(posted[m])) = Len(updated_apps) - 1

----------------------------------------------------------------------------
\* The release-notes block of send_consolidated_notification (lines 146-154),
\* as a function of AppInfo.release_notes.

\* Longest release notes tried.
MaxNotesLen == 600

\* Blank characters tried: space, tab, newline, ideographic space.
PadChars == {32, 9, 10, 12288}

\* Release notes of n characters of which the first pad are the blank c, the
\* others the letters a and b.
Notes(n, pad, c) ==
    [k \in 1..n |-> IF k <= pad THEN c ELSE IF k % 2 = 0 THEN 97 ELSE 98]

NotesInputs ==
    {Notes(n, pad, c) : n \in 0..MaxNotesLen, pad \in {0, 1}, c \in PadChars}
    \cup {Notes(n, n, c) : n \in {0, 1, 2, NotesLimit, MaxNotesLen}, c \in PadChars}

\* A bot that tracks nothing, with nothing stored.
BotAtRest ==
    /\ BotInit
    /\ competitors = <<>>
    /\ disk = NoFile
    /\ catalog = [x \in Ids |-> Result(x, "1.0", PublishedNotes(x, "1.0"))]

InitNotes ==
    /\ BotAtRest
    /\ SchedIdle
    /\ release_notes \in NotesInputs
    /\ notes_block = <<>>
    /\ list_a = <<>>
    /\ list_b = <<>>
    /\ titles = <<>>

\* The formatter is applied to the notes.
FormatNotes ==
    /\ notes_block = <<>>
    /\ notes_block' = <<NotesBlock(release_notes)>>
    /\ UNCHANGED <<bot, sched, release_notes, list_a, list_b, titles>>

NextNotes == FormatNotes

SpecNotes == InitNotes /\ [][NextNotes]_vars

\* C11: notes longer than 500 characters appear as their first 500
\* characters followed by the marker; notes of at most 500 characters appear
\* unchanged without marker; empty or blank notes give no block.
C11_NotesTruncation ==
    notes_block # <<>> =>
        LET n == release_notes
            out == notes_block[1]
            blank == \A k \in 1..Len(n) : n[k] \in PadChars
        IN IF blank THEN out = <<>>
           ELSE /\ Len(out) = 1
                /\ IF Len(n) > 500
                   THEN /\ Len(out[1].text) = 503
                        /\ \A k \in 1..500 : out[1].text[k] = n[k]
                        /\ \A k \in 501..503 : out[1].text[k] = 46
                   ELSE /\ Len(out[1].text) = Len(n)
                        /\ \A k \in 1..Len(n) : out[1].text[k] = n[k]

\* Notes of 600 characters have been formatted into a block.
C11_Witness ==
    /\ notes_block # <<>>
    /\ Len(release_notes) = 600
    /\ notes_block[1] # <<>>

----------------------------------------------------------------------------
\* C12: no exception leaves a cycle: a cycle that has reached its
\* notification returns to the trigger loop, whatever the delivery and the
\* store write did (the process being stopped from outside set aside).
C12_CycleReturnsNormally ==
    [][(FinishStep /\ save_result' # "interrupted") => pc' = "idle"]_vars

\* C13: a process that starts while a store file exists runs only with the
\* content of that file loaded; an unreadable file is not replaced by the
\* empty mapping.
C13_UnreadableStoreSurfaced ==
    [][(pc = "down" /\ pc' = "idle" /\ disk.state # "nofile")
         => (disk.state = "ok" /\ last_versions' = disk.data)]_vars

\* C15: when the process is stopped, the file is left holding either what it
\* held before or the complete new mapping.
C15_StopLeavesWholeFile ==
    [][(pc # "down" /\ pc' = "down")
         => (disk' = disk \/ disk' = FileOf(last_versions))]_vars

\* C17: between cycles the in-memory mapping equals the mapping a restarted
\* process would load.
C17_MemoryEqualsPersisted ==
    pc = "idle" => load_last_check(disk) = last_versions

\* C18: no entry of the version store (the file, and the mapping of a
\* running process) is ever lost, and an entry of the mapping changes only
\* by a successful fetch of its id, to the fetched version.
C18_StoreOnlyGrows ==
    [][/\ \A x \in Ids :
            load_last_check(disk)[x] # None => load_last_check(disk')[x] # None
       /\ (pc # "down" /\ pc' # "down")
            => \A x \in Ids :
                 /\ last_versions[x] # None => last_versions'[x] # None
                 /\ last_versions'[x] # last_versions[x]
                      => (/\ FetchedStep
                          /\ competitors[i] = x
                          /\ last_versions'[x] = app_info'.current_version)]_vars

\* C19: two records of one cycle for the same id, with no record of that id
\* between them, carry different versions; and a successful fetch that
\* returns the version of the id's latest record of the cycle adds nothing.
C19_OneRecordPerVersion ==
    /\ [](\A j, k \in 1..Len(updated_apps) :
            (/\ j < k
             /\ updated_apps[j].app_id = updated_apps[k].app_id
             /\ \A m \in (j + 1)..(k - 1) :
                    updated_apps[m].app_id # updated_apps[j].app_id)
              => updated_apps[j].current_version # updated_apps[k].current_version)
    /\ [][(/\ FetchedStep
           /\ HasRecord(updated_apps, competitors[i])
           /\ LastVersionIn(updated_apps, competitors[i], None)
                 = app_info'.current_version)
            => updated_apps' = updated_apps]_vars

\* Tracked [A, A]: both occurrences examined, the second fetched the version
\* of the one record of the cycle.
C19_Witness ==
    /\ pc = "loop"
    /\ Len(competitors) = 2
    /\ competitors[1] = competitors[2]
    /\ i = 3
    /\ app_info # NoAppInfo
    /\ Len(updated_apps) = 1
    /\ updated_apps[1].current_version = app_info.current_version
    /\ cur_ok = {competitors[1]}

----------------------------------------------------------------------------
\* The title of the message, for two lists of records side by side.

MaxTitleLen == 2

\* The records send_consolidated_notification can be handed.
TitleRecords ==
    {[AppInfo(x, Result(x, v, PublishedNotes(x, v))) EXCEPT !.is_new_release = b] :
        x \in Ids, v \in Versions, b \in BOOLEAN}

RECURSIVE ListsOfLen(_)
ListsOfLen(n) ==
    IF n = 0 THEN {<<>>}
    ELSE {Append(l, r) : l \in ListsOfLen(n - 1), r \in TitleRecords}

\* The call returns before building a title when the list is empty.
TitleLists == UNION {ListsOfLen(n) : n \in 1..MaxTitleLen}

\* title = f"{emoji} Competitor App Updates ({len(updated_apps)})"
Title(apps) == <<Header(apps).emoji, Header(apps).count>>

AllNewRelease(apps) == \A k \in 1..Len(apps) : apps[k].is_new_release
HasFirstObservation(apps) == \E k \in 1..Len(apps) : ~apps[k].is_new_release

InitTitle ==
    /\ BotAtRest
    /\ SchedIdle
    /\ release_notes = <<>>
    /\ notes_block = <<>>
    /\ list_a \in TitleLists
    /\ list_b \in TitleLists
    /\ titles = <<>>

\* The title is built for each of the two lists.
FormatTitles ==
    /\ titles = <<>>
    /\ titles' = <<Title(list_a), Title(list_b)>>
    /\ UNCHANGED <<bot, sched, release_notes, notes_block, list_a, list_b>>

NextTitle == FormatTitles

SpecTitle == InitTitle /\ [][NextTitle]_vars

\* C16: of two lists of equal length, one made of new releases only and one
\* containing a first observation, the titles differ.
C16_TitleTellsFirstObservation ==
    (/\ titles # <<>>
     /\ Len(list_a) = Len(list_b)
     /\ AllNewRelease(list_a)
     /\ HasFirstObservation(list_b))
      => titles[1] # titles[2]

----------------------------------------------------------------------------
\* The trigger loop of main: the check at process start, then the job run by
\* run_pending once it is due.  `due` says that a check is to be run, and
\* `active` counts the cycles that have started and not ended.

MaxSchedTracked == 1

InitSched ==
    /\ BotInit
    /\ Len(competitors) <= MaxSchedTracked
    /\ due = TRUE
    /\ active = 0
    /\ FmtIdle

\* The 60 minutes of the job have elapsed while the loop sleeps.
Tick ==
    /\ pc = "idle"
    /\ due = FALSE
    /\ due' = TRUE
    /\ UNCHANGED <<bot, active, fmt>>

\* monitor.check_for_updates() is entered, from main or from run_pending.
RunPending ==
    /\ due
    /\ StartCycle
    /\ active' = active + 1
    /\ UNCHANGED <<due, fmt>>

\* The call returns to main (the job is rescheduled), or leaves it.
FinishSched ==
    /\ Finish
    /\ due' = FALSE
    /\ active' = IF pc' = "down" THEN 0 ELSE active - 1
    /\ UNCHANGED fmt

KillSched ==
    /\ Kill
    /\ due' = FALSE
    /\ active' = 0
    /\ UNCHANGED fmt

RestartSched ==
    /\ Restart
    /\ due' = TRUE
    /\ active' = 0
    /\ UNCHANGED fmt

NextSched ==
    \/ Tick
    \/ RunPending
    \/ Examine /\ UNCHANGED <<sched, fmt>>
    \/ FinishSched
    \/ CatalogRelease /\ UNCHANGED <<sched, fmt>>
    \/ KillSched
    \/ RestartSched

SpecSched == InitSched /\ [][NextSched]_vars

\* C14: at most one cycle is active at any time, and a cycle begins only
\* when no cycle is active and the previous one has returned to the trigger
\* loop, its store write included.
C14_OneActiveCycle ==
    /\ [](active <= 1)
    /\ [](pc = "loop" => active = 1)
    /\ [][active' > active
            => (/\ active = 0
                /\ pc = "idle"
                /\ delivery \in {"ok", "api_error"} => save_result # "none")]_vars

\* A second cycle of the same run is under way, alone, the job being due.
C14_Witness ==
    /\ pc = "loop"
    /\ active = 1
    /\ due
    /\ i > 1
    /\ quiet = 2

----------------------------------------------------------------------------
\* SlackNotifier.send_notification (lines 172-174), the public method kept
\* for older callers.  Nothing in main or in check_for_updates calls it, so
\* it is no step of Spec; here it is called on a freshly fetched record.

InitLegacy ==
    /\ BotInit
    /\ competitors = <<>>
    /\ disk = NoFile
    /\ SchedIdle
    /\ FmtIdle

SendNotification ==
    /\ pc = "idle"
    /\ posted = <<>>
    /\ \E x \in Ids, is_new_release \in BOOLEAN, d \in DeliveryOutcomes :
          /\ posted' = <<send_notification(get_app_info(x, "ok"), is_new_release)>>
          /\ delivery' = d
    /\ UNCHANGED <<competitors, last_versions, disk, catalog, pc, i, updated_apps,
                   app_info, save_result, pre_versions, undelivered, quiet,
                   prev_ok, cur_ok>>

NextLegacy == SendNotification /\ UNCHANGED <<sched, fmt>>

SpecLegacy == InitLegacy /\ [][NextLegacy]_vars
====
